---- MODULE Spec2Model ----
(***************************************************************************)
(* Model of SU2_PY/SU2/opt/reducedSQP.py: the reduced_sqp dispatcher and   *)
(* the adapter callbacks f, df, ddf, feq, fieq that read the module-level  *)
(* variable glob_project.                                                  *)
(*                                                                         *)
(* Python values are records [kind, vals]: kind is "list", "None",         *)
(* "ndarray", "num" or the name of the exception raised in place of a      *)
(* value.  Floats are abstracted to integers.                              *)
(***************************************************************************)
EXTENDS Integers, Sequences, FiniteSets, TLC

VARIABLES stack, glob_project, result, lastEval

vars == <<stack, glob_project, result, lastEval>>

\* ------------------------------------------------------------------ bounds
MaxLen == 2
MaxObj == 2
\* calls of reduced_sqp in flight at once
MaxDepth == 2

\* numbers the external project may deliver
Vals == {-1, 0, 2}

SeqsUpTo(S, n) == UNION {[1..k -> S] : k \in 0..n}

\* ------------------------------------------------------------ Python values
List(s) == [kind |-> "list", vals |-> s]
NdArray(s) == [kind |-> "ndarray", vals |-> s]
Num(n) == [kind |-> "num", vals |-> <<n>>]
None == [kind |-> "None", vals |-> <<>>]
Raise(e) == [kind |-> e, vals |-> <<>>]
Exceptions == {"IndexError", "ValueError", "NameError", "UnboundLocalError"}
IsError(v) == v.kind \in Exceptions

\* --------------------------------------------------- the external project
ModeStrings == {"SCIPY", "SQP_CVXOPT", "SQP_LES", "SIMPLIFIED", "BOGUS"}
ProjectNames == {"A", "B"}
Projects == [name : ProjectNames, SQP_MODE : ModeStrings]
\* glob_project before any assignment: the name is declared, not bound
Unset == [name |-> "<unbound>", SQP_MODE |-> "<unbound>"]

\* what a project's evaluation operations may return at some x
ObjLists == {List(s) : s \in SeqsUpTo(Vals, MaxLen)}
GradLists == {List(s) : s \in SeqsUpTo(SeqsUpTo(Vals, MaxLen), MaxObj)}
ConValues == {List(s) : s \in SeqsUpTo(Vals, MaxLen)} \cup {None}
                \cup {NdArray(s) : s \in SeqsUpTo(Vals, MaxLen)}

\* the caller's remaining arguments of reduced_sqp
CallerArgs ==
  { [x0 |-> <<0>>, func |-> "func_1", f_eqcons |-> "f_eqcons_1",
     f_ieqcons |-> "f_ieqcons_1", fprime |-> "fprime_1",
     fprime_eqcons |-> "fprime_eqcons_1", fprime_ieqcons |-> "fprime_ieqcons_1",
     fdotdot |-> "fdotdot_1", iter |-> 10, acc |-> "1e-6", xb |-> "xb_1"],
    [x0 |-> <<1, 2>>, func |-> "func_2", f_eqcons |-> "f_eqcons_2",
     f_ieqcons |-> "None", fprime |-> "fprime_2",
     fprime_eqcons |-> "fprime_eqcons_2", fprime_ieqcons |-> "None",
     fdotdot |-> "fdotdot_2", iter |-> 100, acc |-> "1e-10", xb |-> "None"] }

\* ------------------------------------------------------------- reduced_sqp
\* variant: the unrecognized mode falls into the last branch (elif written as else)
Branch_lastElse(SQP_MODE) ==
  IF SQP_MODE = "SCIPY" THEN "SCIPY"
  ELSE IF SQP_MODE = "SQP_CVXOPT" THEN "SQP_CVXOPT"
  ELSE IF SQP_MODE = "SQP_LES" THEN "SQP_LES"
  ELSE "SIMPLIFIED"

\* the if/elif/else chain on SQP_MODE
Branch(SQP_MODE) ==
  IF SQP_MODE = "SCIPY" THEN "SCIPY"
  ELSE IF SQP_MODE = "SQP_CVXOPT" THEN "SQP_CVXOPT"
  ELSE IF SQP_MODE = "SQP_LES" THEN "SQP_LES"
  ELSE IF SQP_MODE = "SIMPLIFIED" THEN "SIMPLIFIED"
  ELSE "else"

\* variant: the SQP_LES branch calls the core of the branch above it
BackEnd_copied(branch) ==
  CASE branch = "SCIPY" -> "optimize.minimize"
    [] branch = "SQP_CVXOPT" -> "SQPconstrained"
    [] branch = "SQP_LES" -> "SQPconstrained"
    [] branch = "SIMPLIFIED" -> "SQPequalconstrained"

\* the callable each branch invokes
BackEnd(branch) ==
  CASE branch = "SCIPY" -> "optimize.minimize"
    [] branch = "SQP_CVXOPT" -> "SQPconstrained"
    [] branch = "SQP_LES" -> "SQPequalconstrained"
    [] branch = "SIMPLIFIED" -> "SQPequalconstrained"

\* variant: the SIMPLIFIED branch passes the caller's curvature handle on
BackEndArgs_fdotdot(branch, a, project) ==
  CASE branch = "SCIPY" ->
         [fun |-> "f", x0 |-> a.x0, method |-> "trust-constr",
          jac |-> "df", hess |-> "ddf",
          constraints |-> << [fun |-> "feq", lb |-> "0.0", ub |-> "0.0"],
                             [fun |-> "fieq", lb |-> "0.0", ub |-> "np.inf"] >>,
          bounds |-> a.xb, tol |-> a.acc,
          options |-> [maxiter |-> a.iter, verbose |-> 3]]
    [] branch = "SQP_CVXOPT" ->
         <<a.x0, a.func, a.f_eqcons, a.f_ieqcons,
           a.fprime, a.fprime_eqcons, a.fprime_ieqcons, a.fdotdot,
           project, a.iter, a.acc, "None">>
    [] branch \in {"SQP_LES", "SIMPLIFIED"} ->
         <<a.x0, a.func, a.f_eqcons,
           a.fprime, a.fprime_eqcons, a.fdotdot,
           project, a.iter, a.acc, "None">>

\* the arguments each branch hands to its callable
BackEndArgs(branch, a, project) ==
  CASE branch = "SCIPY" ->
         [fun |-> "f", x0 |-> a.x0, method |-> "trust-constr",
          jac |-> "df", hess |-> "ddf",
          constraints |-> << [fun |-> "feq", lb |-> "0.0", ub |-> "0.0"],
                             [fun |-> "fieq", lb |-> "0.0", ub |-> "np.inf"] >>,
          bounds |-> a.xb, tol |-> a.acc,
          options |-> [maxiter |-> a.iter, verbose |-> 3]]
    [] branch = "SQP_CVXOPT" ->
         <<a.x0, a.func, a.f_eqcons, a.f_ieqcons,
           a.fprime, a.fprime_eqcons, a.fprime_ieqcons, a.fdotdot,
           project, a.iter, a.acc, "None">>
    [] branch = "SQP_LES" ->
         <<a.x0, a.func, a.f_eqcons,
           a.fprime, a.fprime_eqcons, a.fdotdot,
           project, a.iter, a.acc, "None">>
    [] branch = "SIMPLIFIED" ->
         <<a.x0, a.func, a.f_eqcons,
           a.fprime, a.fprime_eqcons, "unit_hessian",
           project, a.iter, a.acc, "None">>

\* the calls a branch makes, in order
Invocations(branch, a, project) ==
  IF branch = "else" THEN <<>>
  ELSE << [backend |-> BackEnd(branch), args |-> BackEndArgs(branch, a, project)] >>

\* what a branch writes to sys.stdout
Written(branch) ==
  CASE branch = "SCIPY" -> <<>>
    [] branch = "SQP_CVXOPT" -> <<"Using implemented SQP version. \n">>
    [] branch = "SQP_LES" -> <<"Using implemented SQP version. \n">>
    [] branch = "SIMPLIFIED" -> <<"Using simplified SQP iterations \n">>
    [] branch = "else" -> <<"Please choose a valid SQP_MODE! \n">>

\* variant: the assignment to glob_project is left out
Publish_never(branch, glob, project) == glob

\* variant: the assignment is guarded, a project already published is kept
Publish_guarded(branch, glob, project) ==
  IF branch = "SCIPY" /\ glob = Unset THEN project ELSE glob

\* glob_project after the branch has run up to its back-end call
Publish(branch, glob, project) ==
  IF branch = "SCIPY" THEN project ELSE glob

\* the local variable outputs
Unbound == [kind |-> "unbound", backend |-> "", success |-> FALSE]
ResultObject(b, s) == [kind |-> "result", backend |-> b, success |-> s]

\* the outcome of a call as its caller sees it
NoResult == [kind |-> "none", value |-> Unbound]
Returned(v) == [kind |-> "return", value |-> v]
Raised(e) == [kind |-> e, value |-> Unbound]

\* `return outputs`: reading a local that no branch assigned raises
ReturnOutputs(outputs) ==
  IF outputs = Unbound THEN Raised("UnboundLocalError") ELSE Returned(outputs)

\* ---------------------------------------------------------------- adapters
RECURSIVE f_loop(_, _, _)
f_loop(obj_list, i, obj) ==
  IF i > Len(obj_list) THEN obj
  ELSE f_loop(obj_list, i + 1, obj + obj_list[i])

\* variant: obj = this_obj, the running sum is overwritten
f_overwrite(obj_list) ==
  Num(IF Len(obj_list.vals) = 0 THEN 0 ELSE obj_list.vals[Len(obj_list.vals)])

f(obj_list) == Num(f_loop(obj_list.vals, 1, 0))

\* the two nested loops of df and ddf; dobj[idv] beyond the end of dobj raises
RECURSIVE accumulate(_, _, _)
accumulate(dobj_list, k, dobj) ==
  IF k > Len(dobj_list) THEN NdArray(dobj)
  ELSE IF Len(dobj_list[k]) > Len(dobj) THEN Raise("IndexError")
  ELSE accumulate(dobj_list, k + 1,
         [idv \in 1..Len(dobj) |->
            IF idv <= Len(dobj_list[k]) THEN dobj[idv] + dobj_list[k][idv]
            ELSE dobj[idv]])

\* variant: the outer loop starts at the second contribution
df_skipFirst(dobj_list) ==
  IF Len(dobj_list.vals) = 0 THEN Raise("IndexError")
  ELSE accumulate(dobj_list.vals, 2, [idv \in 1..Len(dobj_list.vals[1]) |-> 0])

df(dobj_list) ==
  IF Len(dobj_list.vals) = 0 THEN Raise("IndexError")
  ELSE accumulate(dobj_list.vals, 1, [idv \in 1..Len(dobj_list.vals[1]) |-> 0])

ddf(dobj_list) ==
  IF Len(dobj_list.vals) = 0 THEN Raise("IndexError")
  ELSE accumulate(dobj_list.vals, 1, [idv \in 1..Len(dobj_list.vals[1]) |-> 0])

\* the outcomes of `if cons:`; an ndarray of several elements has no truth
\* value, one of no element has none either in recent NumPy and is false in
\* older ones
Truth(cons) ==
  CASE cons.kind = "list" -> {IF Len(cons.vals) > 0 THEN "True" ELSE "False"}
    [] cons.kind = "None" -> {"False"}
    [] cons.kind = "ndarray" ->
         IF Len(cons.vals) = 0 THEN {"False", "ValueError"}
         ELSE IF Len(cons.vals) = 1
              THEN {IF cons.vals[1] # 0 THEN "True" ELSE "False"}
              ELSE {"ValueError"}

\* variant: the else branch leaves cons as the project returned it
feq_uncoerced(cons, t) ==
  IF t = "ValueError" THEN Raise("ValueError")
  ELSE IF t = "True" THEN NdArray(cons.vals)
  ELSE cons

feq(cons, t) ==
  IF t = "ValueError" THEN Raise("ValueError")
  ELSE IF t = "True" THEN NdArray(cons.vals)
  ELSE NdArray(<<>>)

fieq(cons, t) ==
  IF t = "ValueError" THEN Raise("ValueError")
  ELSE IF t = "True" THEN NdArray([i \in 1..Len(cons.vals) |-> -cons.vals[i]])
  ELSE NdArray(<<>>)

\* ------------------------------------------------------------------- state
NoEval == [fn |-> "none", project |-> Unset, input |-> None, result |-> None]

Frame(project, a, glob) ==
  [project |-> project, a |-> a, SQP_MODE |-> project.SQP_MODE,
   pc |-> "dispatch", invoked |-> <<>>, stdout |-> <<>>,
   outputs |-> Unbound, exc |-> "", glob_at_entry |-> glob]

Top == stack[Len(stack)]
SetTop(fr) == [stack EXCEPT ![Len(stack)] = fr]

Init ==
  /\ stack = <<>>
  /\ glob_project = Unset
  /\ result = NoResult
  /\ lastEval = NoEval

\* a caller enters reduced_sqp; SQP_MODE is read from project.config
Call ==
  /\ stack = <<>>
  /\ \E project \in Projects, a \in CallerArgs :
       stack' = Append(stack, Frame(project, a, glob_project))
  /\ result' = NoResult
  /\ UNCHANGED <<glob_project, lastEval>>

\* the chosen branch, up to and including the call of its back end
Dispatch ==
  /\ stack # <<>>
  /\ Top.pc = "dispatch"
  /\ LET branch == Branch(Top.SQP_MODE)
         inv == Invocations(branch, Top.a, Top.project)
     IN /\ glob_project' = Publish(branch, glob_project, Top.project)
        /\ stack' = SetTop([Top EXCEPT !.invoked = inv,
                                       !.stdout = Written(branch),
                                       !.pc = IF inv = <<>> THEN "ret" ELSE "backend"])
  /\ UNCHANGED <<result, lastEval>>

\* the generic back end is running and no callback of it is
InMinimize ==
  /\ stack # <<>>
  /\ Top.pc = "backend"
  /\ Top.invoked[1].backend = "optimize.minimize"
  /\ lastEval = NoEval

\* a callback the generic back end makes; an exception leaves minimize
Callback(fn, input, res) ==
  LET out == IF glob_project = Unset THEN Raise("NameError") ELSE res
  IN /\ lastEval' = [fn |-> fn, project |-> glob_project, input |-> input,
                     result |-> out]
     /\ stack' = IF IsError(out)
                 THEN SetTop([Top EXCEPT !.pc = "raised", !.exc = out.kind])
                 ELSE stack
     /\ UNCHANGED <<glob_project, result>>

Eval_f == InMinimize /\ \E l \in ObjLists : Callback("f", l, f(l))

Eval_df == InMinimize /\ \E l \in GradLists : Callback("df", l, df(l))

Eval_ddf == InMinimize /\ \E l \in GradLists : Callback("ddf", l, ddf(l))

Eval_feq ==
  InMinimize /\ \E c \in ConValues : \E t \in Truth(c) : Callback("feq", c, feq(c, t))

Eval_fieq ==
  InMinimize /\ \E c \in ConValues : \E t \in Truth(c) : Callback("fieq", c, fieq(c, t))

\* a callback hands its value back to the generic back end
CallbackReturn ==
  /\ stack # <<>>
  /\ Top.pc = "backend"
  /\ lastEval # NoEval
  /\ lastEval' = NoEval
  /\ UNCHANGED <<stack, glob_project, result>>

\* the back end returns its result object, which is bound to outputs
BackEndReturn ==
  /\ stack # <<>>
  /\ Top.pc = "backend"
  /\ lastEval = NoEval
  /\ \E s \in BOOLEAN :
       stack' = SetTop([Top EXCEPT !.outputs = ResultObject(Top.invoked[1].backend, s),
                                   !.pc = "ret"])
  /\ UNCHANGED <<glob_project, result, lastEval>>

\* `return outputs`, or the exception of a callback leaving the call
Return ==
  /\ stack # <<>>
  /\ Top.pc \in {"ret", "raised"}
  /\ result' = IF Top.pc = "raised" THEN Raised(Top.exc) ELSE ReturnOutputs(Top.outputs)
  /\ stack' = SubSeq(stack, 1, Len(stack) - 1)
  /\ lastEval' = NoEval
  /\ UNCHANGED glob_project

Next ==
  \/ Call
  \/ Dispatch
  \/ Eval_f
  \/ Eval_df
  \/ Eval_ddf
  \/ Eval_feq
  \/ Eval_fieq
  \/ CallbackReturn
  \/ BackEndReturn
  \/ Return

Spec == Init /\ [][Next]_vars

\* ------------------------------------------------- calls that overlap
\* reduced_sqp is entered again while optimize.minimize of the call below it
\* is still running (from a project evaluation or a hook of the back end);
\* the inner call runs to its end before the outer one goes on
CallNested ==
  /\ InMinimize
  /\ Len(stack) < MaxDepth
  /\ \E project \in Projects, a \in CallerArgs :
       stack' = Append(stack, Frame(project, a, glob_project))
  /\ result' = NoResult
  /\ UNCHANGED <<glob_project, lastEval>>

\* df and ddf read glob_project by the statement f does; their inputs are
\* left to Spec
NextReentrant ==
  \/ Call
  \/ CallNested
  \/ Dispatch
  \/ Eval_f
  \/ Eval_feq
  \/ Eval_fieq
  \/ CallbackReturn
  \/ BackEndReturn
  \/ Return

SpecReentrant == Init /\ [][NextReentrant]_vars

TypeOK ==
  /\ Len(stack) <= 1
  /\ glob_project \in Projects \cup {Unset}

\* ------------------------------------------------------------- properties
Recognized == {"SCIPY", "SQP_CVXOPT", "SQP_LES", "SIMPLIFIED"}
Frames == {stack[i] : i \in 1..Len(stack)}
Dispatched(fr) == fr.pc # "dispatch"

RECURSIVE SumSeq(_)
SumSeq(s) == IF s = <<>> THEN 0 ELSE SumSeq(SubSeq(s, 1, Len(s) - 1)) + s[Len(s)]

SameLength(l) == \A k \in 1..Len(l) : Len(l[k]) = Len(l[1])
ColumnSums(l) ==
  [i \in 1..Len(l[1]) |-> SumSeq([k \in 1..Len(l) |-> l[k][i]])]
Negated(s) == [i \in 1..Len(s) |-> 0 - s[i]]

\* C1: a call with a recognized SQP_MODE invokes nothing before its branch
\* runs and, from then on, has invoked exactly one back end exactly once, the
\* one of its mode: SCIPY -> optimize.minimize with method 'trust-constr',
\* SQP_CVXOPT -> SQPconstrained, SQP_LES and SIMPLIFIED -> SQPequalconstrained.
C1_OneBackEnd ==
  \A fr \in Frames :
    fr.SQP_MODE \in Recognized =>
      IF ~Dispatched(fr) THEN fr.invoked = <<>>
      ELSE /\ Len(fr.invoked) = 1
           /\ fr.SQP_MODE = "SCIPY" =>
                /\ fr.invoked[1].backend = "optimize.minimize"
                /\ fr.invoked[1].args.method = "trust-constr"
           /\ fr.SQP_MODE = "SQP_CVXOPT" => fr.invoked[1].backend = "SQPconstrained"
           /\ fr.SQP_MODE \in {"SQP_LES", "SIMPLIFIED"} =>
                fr.invoked[1].backend = "SQPequalconstrained"

C1_Witness ==
  \E fr \in Frames :
    /\ fr.SQP_MODE = "SQP_LES"
    /\ fr.pc = "ret"
    /\ fr.outputs.kind = "result"
    /\ fr.invoked[1].backend = "SQPequalconstrained"

\* C2: in modes SQP_LES and SIMPLIFIED the back end receives exactly
\* (x0, func, f_eqcons, fprime, fprime_eqcons, H, project, iter, acc, None),
\* H being the caller's fdotdot in SQP_LES and unit_hessian, not the caller's
\* fdotdot, in SIMPLIFIED; no inequality handle is among the arguments.
C2_EqualityOnlyArgs ==
  \A fr \in Frames :
    (fr.SQP_MODE \in {"SQP_LES", "SIMPLIFIED"} /\ Dispatched(fr)) =>
      LET H == IF fr.SQP_MODE = "SQP_LES" THEN fr.a.fdotdot ELSE "unit_hessian"
      IN /\ Len(fr.invoked) = 1
         /\ fr.invoked[1].backend = "SQPequalconstrained"
         /\ fr.invoked[1].args =
              <<fr.a.x0, fr.a.func, fr.a.f_eqcons, fr.a.fprime, fr.a.fprime_eqcons,
                H, fr.project, fr.a.iter, fr.a.acc, "None">>
         /\ fr.SQP_MODE = "SIMPLIFIED" => fr.invoked[1].args[6] # fr.a.fdotdot

C2_Witness ==
  \E fr \in Frames :
    /\ fr.SQP_MODE = "SIMPLIFIED"
    /\ fr.pc = "backend"
    /\ fr.a.f_ieqcons # "None"
    /\ fr.a.fprime_ieqcons # "None"
    /\ fr.invoked[1].args[6] = "unit_hessian"

\* C3: a call with an unrecognized SQP_MODE writes the invalid-configuration
\* diagnostic to standard output, invokes no back end and leaves glob_project
\* as it found it.
C3_UnrecognizedMode ==
  \A fr \in Frames :
    (fr.SQP_MODE \notin Recognized /\ Dispatched(fr)) =>
      /\ fr.stdout = <<"Please choose a valid SQP_MODE! \n">>
      /\ fr.invoked = <<>>
      /\ glob_project = fr.glob_at_entry

C3_Witness ==
  \E fr \in Frames :
    /\ fr.SQP_MODE = "BOGUS"
    /\ fr.pc = "ret"
    /\ fr.stdout # <<>>
    /\ fr.glob_at_entry # Unset

\* C4: a call with an unrecognized SQP_MODE ends in a normal return to its
\* caller, not in an exception raised out of reduced_sqp.
C4_NormalReturn ==
  [][(stack # <<>> /\ Top.SQP_MODE \notin Recognized /\ Len(stack') < Len(stack))
       => result'.kind = "return"]_vars

\* C5: f(x) is the sum of the objective contributions obj_f(x) returned, and
\* 0 when the list is empty.
C5_ObjectiveSum ==
  lastEval.fn = "f" =>
    /\ lastEval.result = Num(SumSeq(lastEval.input.vals))
    /\ lastEval.input.vals = <<>> => lastEval.result = Num(0)

C5_Witness ==
  /\ lastEval.fn = "f"
  /\ lastEval.input = List(<<2, -1>>)
  /\ lastEval.result = Num(1)

\* C6: for a non-empty list of gradient contributions of one length n, df(x)
\* is the length-n vector of the column sums, and ddf(x) likewise for the
\* list obj_ddf(x) returned.
C6_GradientSum ==
  (/\ lastEval.fn \in {"df", "ddf"}
   /\ lastEval.input.vals # <<>>
   /\ SameLength(lastEval.input.vals)) =>
    /\ lastEval.result = NdArray(ColumnSums(lastEval.input.vals))
    /\ Len(lastEval.result.vals) = Len(lastEval.input.vals[1])

C6_Witness ==
  /\ lastEval.fn = "df"
  /\ lastEval.input = List(<< <<2, -1>>, <<2, 2>> >>)
  /\ lastEval.result = NdArray(<<4, 1>>)

\* C7: for every non-empty inequality-constraint vector c that con_cieq(x)
\* returns, list or array, zero entries included, fieq(x) has the length of c
\* and fieq(x)[i] = -c[i].
C7_Negation ==
  (/\ lastEval.fn = "fieq"
   /\ lastEval.input.kind \in {"list", "ndarray"}
   /\ lastEval.input.vals # <<>>) =>
    lastEval.result = NdArray(Negated(lastEval.input.vals))

\* C8: when con_ceq(x) or con_cieq(x) returns an empty list or None, feq(x)
\* or fieq(x) is a zero-length vector, never None or another non-vector
\* value; a non-empty list is not replaced by the zero-length vector.
C8_EmptyNormalized ==
  (lastEval.fn \in {"feq", "fieq"} /\ lastEval.input.kind \in {"list", "None"}) =>
    /\ lastEval.result.kind = "ndarray"
    /\ Len(lastEval.result.vals) = Len(lastEval.input.vals)

C8_Witness ==
  /\ lastEval.fn = "feq"
  /\ lastEval.input = None
  /\ lastEval.result = NdArray(<<>>)

\* C9: with calls that do not overlap, while the generic back end of a SCIPY
\* call runs glob_project is that call's project, and every callback it makes
\* evaluates that project, not the project of an earlier call.
C9_ActiveProject ==
  \A fr \in Frames :
    (fr.SQP_MODE = "SCIPY" /\ fr.pc \in {"backend", "raised"}) =>
      /\ glob_project = fr.project
      /\ lastEval.fn # "none" => lastEval.project = fr.project

C9_Witness ==
  \E fr \in Frames :
    /\ fr.SQP_MODE = "SCIPY"
    /\ fr.pc = "backend"
    /\ fr.glob_at_entry \notin {Unset, fr.project}
    /\ lastEval.fn = "fieq"
    /\ lastEval.project = fr.project

\* C10: when the contributions obj_df(x) or obj_ddf(x) returned are not all
\* of one length, df or ddf raises, whether a later contribution is longer or
\* shorter than the first.
C10_MismatchRaises ==
  (/\ lastEval.fn \in {"df", "ddf"}
   /\ lastEval.input.vals # <<>>
   /\ ~SameLength(lastEval.input.vals)) =>
    IsError(lastEval.result)

\* C11: glob_project is unguarded. It changes only when the SCIPY branch of
\* some call assigns that call's project, every SCIPY branch does assign it
\* whatever it held, a returning call does not put the former value back, and
\* a callback evaluates whatever project it holds at that moment. So once a
\* second SCIPY call with another project has run inside the first, the
\* callbacks of the first evaluate the second call's project.
C11_Unguarded ==
  [][/\ glob_project' # glob_project =>
          /\ stack # <<>>
          /\ Top.pc = "dispatch"
          /\ Top.SQP_MODE = "SCIPY"
     /\ (stack # <<>> /\ Top.pc = "dispatch" /\ Top.SQP_MODE = "SCIPY" /\ stack' # stack) =>
          glob_project' = Top.project
     /\ Len(stack') < Len(stack) => glob_project' = glob_project
     /\ (lastEval = NoEval /\ lastEval' # NoEval) =>
          lastEval'.project = glob_project]_vars

\* the outer call's back end is running again after an inner SCIPY call has
\* returned, and a callback of the outer call evaluates the inner project
C11_Witness ==
  /\ Len(stack) = 1
  /\ Top.SQP_MODE = "SCIPY"
  /\ Top.pc = "backend"
  /\ result.kind = "return"
  /\ result.value.backend = "optimize.minimize"
  /\ lastEval.fn = "f"
  /\ lastEval.project # Top.project
  /\ lastEval.project.SQP_MODE = "SCIPY"
  /\ glob_project = lastEval.project
====
